---- MODULE Spec2Model ----
(***************************************************************************)
(* Credential registration and session bootstrap of base-nextjs-template.  *)
(*                                                                         *)
(* The client side is the RegisterForm component                           *)
(* (src/src/components/auth/RegisterForm.tsx): its React state, the        *)
(* provider-discovery effect, the onChange handlers, handleSubmit with one *)
(* action per await point, and the rendered view.                          *)
(*                                                                         *)
(* The registration endpoint POST /api/auth/register and the credential    *)
(* store are not among the source files; they are modelled from the        *)
(* specification (sections 4.1, 5 and 6).  The auth library (signIn,       *)
(* getProviders) and the network are the environment.                      *)
(***************************************************************************)
EXTENDS Integers, Sequences, FiniteSets, TLC

(***************************************************************************)
(* Bounds of the model.                                                    *)
(***************************************************************************)
\* invocations of handleSubmit on the one mounted form
MaxSubmits == 2
\* registration requests posted straight to the endpoint by API clients
MaxOther == 2

(***************************************************************************)
(* Input domains.                                                          *)
(***************************************************************************)
Names == {"", "Ada"}
Emails == {"", "ada@example.com", "ADA@example.com"}
\* lengths 0, 5 and 6: both sides of the length check
Passwords == {"", "abcde", "secret"}
ProviderIds == {"credentials", "github"}

(***************************************************************************)
(* Messages of the form (RegisterForm.tsx).                                *)
(***************************************************************************)
MsgRequired == "All fields are required"
MsgMismatch == "Passwords do not match"
MsgTooShort == "Password must be at least 6 characters long"
MsgRegistrationFailed == "Registration failed"
MsgGeneric == "An error occurred during registration"

(***************************************************************************)
(* Messages of the endpoint (specification, sections 4.1, 6, 7 and 8).     *)
(***************************************************************************)
SrvMsgRequired == "All fields are required"
SrvMsgTooShort == "Password must be at least 6 characters long"
SrvMsgConflict == "Email already registered"
\* what the endpoint may put in the body of an internal failure
SrvInternalMessages ==
    {"Internal server error", "Can't reach database server at localhost:5432"}

VARIABLES
    \* React state of RegisterForm
    name, email, password, confirmPassword, isLoading, error, success, providers,
    \* progress of the fetchProviders effect: "pending", "resolved", "failed"
    discovery,
    \* position of the running handleSubmit:
    \* "idle", "awaitFetch", "awaitJson", "awaitSignIn", "done"
    pc,
    \* name, email, password captured by the closure of the running handleSubmit
    req,
    \* id of the request the running handleSubmit awaits
    reqId,
    \* the Response fetch resolves with (empty or one record)
    res,
    \* window.location.href
    location,
    \* session held by the auth layer for this browser
    session,
    \* result of the last signIn call: "none", "ok", "rejected", "throws"
    signInResult,
    \* counts of handleSubmit invocations, fetch calls, signIn calls
    submits, fetchCalls, signInCalls,
    \* requests being handled by the endpoint, finished requests, the store
    net, done, accounts,
    \* number of requests posted by API clients
    others

formVars == <<name, email, password, confirmPassword>>
uiVars == <<isLoading, error, success>>
runVars == <<pc, req, reqId, res, location, session, signInResult>>
countVars == <<submits, fetchCalls, signInCalls>>
serverVars == <<net, done, accounts, others>>
appVars == <<formVars, uiVars, providers, discovery, runVars, countVars, serverVars>>

VARIABLES
    \* position of the setup script: "node", "npm", "install", "env", "generate",
    \* "choose", "docker", "dbup", "dbpushUp", "dbpush", "dbmigrate", "seedask",
    \* "seed", "completed", "exit1"
    sp,
    \* the shell variable REPLY
    REPLY,
    \* the file .env: "absent", "user" (the user's own), "example" (the copy)
    envFile,
    \* the file .env as it was when the script started
    envBefore,
    \* the commands and prompts the script has run, each with its success
    steps,
    \* exit status of the script: "running", "0", "1"
    exitStatus

setupVars == <<sp, REPLY, envFile, envBefore, steps, exitStatus>>
vars == <<appVars, setupVars>>

(***************************************************************************)
(* Pure parts of RegisterForm.                                             *)
(***************************************************************************)
\* JavaScript truthiness of a string: !s holds exactly for the empty string
Falsy(s) == s = ""

\* Validate without the length check
ValidateNoLength(n, e, p, c) ==
    IF Falsy(n) \/ Falsy(e) \/ Falsy(p) \/ Falsy(c) THEN MsgRequired
    ELSE IF p # c THEN MsgMismatch
    ELSE ""

\* Validate with the length check before the comparison of the passwords
ValidateLengthFirst(n, e, p, c) ==
    IF Falsy(n) \/ Falsy(e) \/ Falsy(p) \/ Falsy(c) THEN MsgRequired
    ELSE IF Len(p) < 6 THEN MsgTooShort
    ELSE IF p # c THEN MsgMismatch
    ELSE ""

\* the validation of handleSubmit: the message of the first failing check,
\* "" when every check passes
Validate(n, e, p, c) ==
    IF Falsy(n) \/ Falsy(e) \/ Falsy(p) \/ Falsy(c) THEN MsgRequired
    ELSE IF p # c THEN MsgMismatch
    ELSE IF Len(p) < 6 THEN MsgTooShort
    ELSE ""

\* RequestBody with the name sent in the place of the email
RequestBodyWrongEmail(n, e, p) == [name |-> n, email |-> n, password |-> p]

\* the JSON body of the registration request
RequestBody(n, e, p) == [name |-> n, email |-> e, password |-> p]

\* a test of the response object in the place of its ok flag
ResOkAlways(status) == TRUE

\* Response.ok
ResOk(status) == status >= 200 /\ status <= 299

\* the fallback message whatever the body carries
ErrorOfFallbackOnly(dataError) == MsgRegistrationFailed

\* data.error || 'Registration failed'
ErrorOf(dataError) == IF Falsy(dataError) THEN MsgRegistrationFailed ELSE dataError

\* a redirect that depends on the result of signIn
RedirectOnlyWhenSignedIn(result) == IF result = "ok" THEN "/" ELSE "/auth/signin"

\* value of the redirect after signIn has returned: the result is not read
RedirectTarget(result) == "/"

\* oauthProviders without the filter on the provider id
OauthProvidersUnfiltered == IF providers.isNull THEN {} ELSE providers.ids

\* oauthProviders: the providers other than credentials, [] while providers is null
OauthProviders ==
    IF providers.isNull THEN {} ELSE {p \in providers.ids : p # "credentials"}

\* a view that waits for the providers before it renders the form
ViewNeedsProviders ==
    IF success
    THEN {[el |-> "successText", arg |-> "Registration successful! Signing you in..."]}
    ELSE IF providers.isNull THEN {[el |-> "loading", arg |-> ""]}
    ELSE {[el |-> "form", arg |-> ""], [el |-> "signinLink", arg |-> "/auth/signin"]}
         \cup (IF Falsy(error) THEN {} ELSE {[el |-> "errorText", arg |-> error]})
         \cup (IF OauthProviders # {}
               THEN {[el |-> "oauthSection", arg |-> ""]}
                    \cup {[el |-> "oauthButton", arg |-> p] : p \in OauthProviders}
               ELSE {})

\* the elements RegisterForm renders
View ==
    IF success
    THEN {[el |-> "successText", arg |-> "Registration successful! Signing you in..."]}
    ELSE {[el |-> "form", arg |-> ""], [el |-> "signinLink", arg |-> "/auth/signin"]}
         \cup (IF Falsy(error) THEN {} ELSE {[el |-> "errorText", arg |-> error]})
         \cup (IF OauthProviders # {}
               THEN {[el |-> "oauthSection", arg |-> ""]}
                    \cup {[el |-> "oauthButton", arg |-> p] : p \in OauthProviders}
               ELSE {})

FormRendered == [el |-> "form", arg |-> ""] \in View

(***************************************************************************)
(* The endpoint and the store, from the specification.                     *)
(***************************************************************************)
\* case folding of the store's email comparison
Lower(e) == IF e = "ADA@example.com" THEN "ada@example.com" ELSE e

\* salted slow hash: never the plaintext
Hash(p) == <<"bcrypt", p>>

AccountsFor(store, e) == {a \in store : Lower(a.email) = Lower(e)}

\* a store without the unique constraint
NoUniqueConstraint(store, e) == FALSE

\* the unique constraint of the store on email
UniqueViolation(store, e) == AccountsFor(store, e) # {}

\* validation of the endpoint: "" when the body is acceptable
SrvValidate(b) ==
    IF b.name = "" \/ b.email = "" \/ b.password = "" THEN SrvMsgRequired
    ELSE IF Len(b.password) < 6 THEN SrvMsgTooShort
    ELSE ""

NoRes == {}

\* the endpoint finishes request r: the outcome is recorded and, when the form
\* still awaits this request, the response travels to it
Finish(r, status, body, msg, how) ==
    /\ done' = done \cup {[id |-> r.id, from |-> r.from, email |-> r.body.email,
                           how |-> how]}
    /\ net' = net \ {r}
    /\ IF r.from = "form" /\ pc = "awaitFetch" /\ reqId = r.id
       THEN res' = {[status |-> status, body |-> body, error |-> msg]}
       ELSE res' = res

(***************************************************************************)
(* Initial state: the component just mounted, the store empty.             *)
(***************************************************************************)
InitForm ==
    /\ name = "" /\ email = "" /\ password = "" /\ confirmPassword = ""
    /\ isLoading = FALSE /\ error = "" /\ success = FALSE
    /\ providers = [isNull |-> TRUE, ids |-> {}]
    /\ discovery = "pending"
    /\ pc = "idle"
    /\ req = [name |-> "", email |-> "", password |-> ""]
    /\ reqId = <<"form", 0>>
    /\ res = NoRes
    /\ location = "/auth/register"
    /\ session = FALSE
    /\ signInResult = "none"
    /\ submits = 0 /\ fetchCalls = 0 /\ signInCalls = 0
    /\ net = {} /\ done = {} /\ accounts = {}
    /\ others = 0

\* the setup script before it is started, .env absent
InitScriptIdle ==
    /\ sp = "node" /\ REPLY = "" /\ steps = <<>> /\ exitStatus = "running"
    /\ envFile = "absent" /\ envBefore = "absent"

Init == InitForm /\ InitScriptIdle

(***************************************************************************)
(* Provider discovery: the effect run once on mount.                       *)
(***************************************************************************)
\* getProviders resolves and setProviders stores the value (null or a map)
ProvidersResolve(v) ==
    /\ discovery = "pending"
    /\ discovery' = "resolved"
    /\ providers' = v
    /\ UNCHANGED <<formVars, uiVars, runVars, countVars, serverVars>>
    /\ UNCHANGED setupVars

\* getProviders rejects: setProviders is never reached
ProvidersFail ==
    /\ discovery = "pending"
    /\ discovery' = "failed"
    /\ UNCHANGED <<formVars, uiVars, providers, runVars, countVars, serverVars>>
    /\ UNCHANGED setupVars

(***************************************************************************)
(* The onChange handlers of the four inputs.  A handleSubmit in flight     *)
(* works on the values its closure captured, so edits made meanwhile act   *)
(* as edits made after it has finished.                                    *)
(***************************************************************************)
SetName(v) ==
    /\ FormRendered /\ pc = "idle" /\ name # v
    /\ name' = v
    /\ UNCHANGED <<email, password, confirmPassword, uiVars, providers, discovery,
                   runVars, countVars, serverVars>>
    /\ UNCHANGED setupVars

SetEmail(v) ==
    /\ FormRendered /\ pc = "idle" /\ email # v
    /\ email' = v
    /\ UNCHANGED <<name, password, confirmPassword, uiVars, providers, discovery,
                   runVars, countVars, serverVars>>
    /\ UNCHANGED setupVars

SetPassword(v) ==
    /\ FormRendered /\ pc = "idle" /\ password # v
    /\ password' = v
    /\ UNCHANGED <<name, email, confirmPassword, uiVars, providers, discovery,
                   runVars, countVars, serverVars>>
    /\ UNCHANGED setupVars

SetConfirmPassword(v) ==
    /\ FormRendered /\ pc = "idle" /\ confirmPassword # v
    /\ confirmPassword' = v
    /\ UNCHANGED <<name, email, password, uiVars, providers, discovery,
                   runVars, countVars, serverVars>>
    /\ UNCHANGED setupVars

(***************************************************************************)
(* handleSubmit.                                                           *)
(***************************************************************************)
\* from the submit event to the first await: validation, then the fetch call.
\* The form exists while success is false, and its submit button is disabled
\* while isLoading holds (loading={isLoading}).  The handler is taken for any
\* field values: it does not rely on the inputs' required attributes.
HandleSubmit ==
    /\ FormRendered /\ ~isLoading /\ pc = "idle"
    /\ submits < MaxSubmits
    /\ submits' = submits + 1
    /\ LET v == Validate(name, email, password, confirmPassword) IN
       IF v # ""
       THEN /\ error' = v
            /\ isLoading' = FALSE
            /\ UNCHANGED <<success, runVars, fetchCalls, signInCalls, serverVars>>
       ELSE /\ error' = ""
            /\ isLoading' = TRUE
            /\ req' = [name |-> name, email |-> email, password |-> password]
            /\ reqId' = <<"form", submits + 1>>
            /\ fetchCalls' = fetchCalls + 1
            /\ net' = net \cup {[id |-> <<"form", submits + 1>>, from |-> "form", st |-> "sent",
                                 body |-> RequestBody(name, email, password)]}
            /\ pc' = "awaitFetch"
            /\ res' = NoRes
            /\ UNCHANGED <<success, location, session, signInResult, signInCalls,
                           done, accounts, others>>
    /\ UNCHANGED <<formVars, providers, discovery>>
    /\ UNCHANGED setupVars

\* a catch block that is not followed by the finally block
CatchWithoutFinally ==
    /\ error' = MsgGeneric
    /\ isLoading' = isLoading

\* catch and finally of handleSubmit
CatchFinally ==
    /\ error' = MsgGeneric
    /\ isLoading' = FALSE

\* fetch resolves with the response that has arrived
FetchResolves ==
    /\ pc = "awaitFetch" /\ res # NoRes
    /\ pc' = "awaitJson"
    /\ UNCHANGED <<formVars, uiVars, providers, discovery, req, reqId, res, location,
                   session, signInResult, countVars, serverVars>>
    /\ UNCHANGED setupVars

\* fetch rejects (network failure): the request was lost, or only its response
FetchRejects(lost) ==
    /\ pc = "awaitFetch" /\ res = NoRes
    /\ CatchFinally
    /\ pc' = "idle"
    /\ net' = IF lost THEN {r \in net : ~(r.id = reqId /\ r.st = "sent")} ELSE net
    /\ UNCHANGED <<formVars, success, providers, discovery, req, reqId, res, location,
                   session, signInResult, countVars, done, accounts, others>>
    /\ UNCHANGED setupVars

\* res.json() settles; then the branch on res.ok up to the signIn call
JsonResolves ==
    /\ pc = "awaitJson"
    /\ \E r \in res :
         IF r.body = "unparseable"
         THEN /\ CatchFinally
              /\ pc' = "idle"
              /\ UNCHANGED <<success, signInCalls>>
         ELSE IF ResOk(r.status)
         THEN /\ success' = TRUE
              /\ signInCalls' = signInCalls + 1
              /\ pc' = "awaitSignIn"
              /\ UNCHANGED <<isLoading, error>>
         ELSE IF r.body = "null"
         THEN /\ CatchFinally
              /\ pc' = "idle"
              /\ UNCHANGED <<success, signInCalls>>
         ELSE /\ error' = ErrorOf(r.error)
              /\ isLoading' = FALSE
              /\ pc' = "idle"
              /\ UNCHANGED <<success, signInCalls>>
    /\ UNCHANGED <<formVars, providers, discovery, req, reqId, res, location, session,
                   signInResult, submits, fetchCalls, serverVars>>
    /\ UNCHANGED setupVars

\* the auth layer verifies the credentials against the store
CredentialsVerify(store, e, p) ==
    \E a \in AccountsFor(store, e) : a.passwordHash = Hash(p)

\* signIn('credentials', {redirect: false}) settles; then the redirect
SignInReturns(result) ==
    /\ pc = "awaitSignIn"
    /\ result = "ok" => CredentialsVerify(accounts, req.email, req.password)
    /\ signInResult' = result
    /\ pc' = "done"
    /\ isLoading' = FALSE
    /\ IF result = "throws"
       THEN /\ error' = MsgGeneric
            /\ UNCHANGED <<location, session>>
       ELSE /\ session' = (result = "ok")
            /\ location' = RedirectTarget(result)
            /\ UNCHANGED error
    /\ UNCHANGED <<formVars, success, providers, discovery, req, reqId, res, countVars,
                   serverVars>>
    /\ UNCHANGED setupVars

(***************************************************************************)
(* The endpoint, the store and the other clients.                          *)
(***************************************************************************)
\* an API client posts a registration body of its own making
OtherRegister(b) ==
    /\ others < MaxOther
    /\ others' = others + 1
    /\ net' = net \cup {[id |-> <<"other", others + 1>>, from |-> "other", st |-> "sent",
                         body |-> b]}
    /\ UNCHANGED <<formVars, uiVars, providers, discovery, runVars, countVars, done,
                   accounts>>
    /\ UNCHANGED setupVars

\* validation and the pre-check of the email against the store
ServerCheck(r) ==
    /\ r.st = "sent"
    /\ LET v == SrvValidate(r.body) IN
       IF v # "" THEN Finish(r, 400, "object", v, "validation")
       ELSE IF AccountsFor(accounts, r.body.email) # {}
       THEN Finish(r, 409, "object", SrvMsgConflict, "conflict")
       ELSE /\ net' = (net \ {r}) \cup {[r EXCEPT !.st = "checked"]}
            /\ UNCHANGED <<done, res>>
    /\ UNCHANGED <<formVars, uiVars, providers, discovery, pc, req, reqId, location,
                   session, signInResult, countVars, accounts, others>>
    /\ UNCHANGED setupVars

\* hash and insert, atomic under the store's unique constraint
ServerInsert(r) ==
    /\ r.st = "checked"
    /\ IF UniqueViolation(accounts, r.body.email)
       THEN /\ Finish(r, 409, "object", SrvMsgConflict, "constraint")
            /\ UNCHANGED accounts
       ELSE /\ accounts' = accounts \cup
                   {[id |-> r.id, name |-> r.body.name, email |-> r.body.email,
                     passwordHash |-> Hash(r.body.password)]}
            /\ Finish(r, 200, "object", "", "ok")
    /\ UNCHANGED <<formVars, uiVars, providers, discovery, pc, req, reqId, location,
                   session, signInResult, countVars, others>>
    /\ UNCHANGED setupVars

\* the store is unavailable: InternalError
ServerInternalError(r, msg) ==
    /\ Finish(r, 500, "object", msg, "internal")
    /\ UNCHANGED <<formVars, uiVars, providers, discovery, pc, req, reqId, location,
                   session, signInResult, countVars, accounts, others>>
    /\ UNCHANGED setupVars

\* a failure answered outside the handler (framework or gateway): no JSON
\* object with an error field
GatewayError(r, body) ==
    /\ r.from = "form"
    /\ Finish(r, 502, body, "", "internal")
    /\ UNCHANGED <<formVars, uiVars, providers, discovery, pc, req, reqId, location,
                   session, signInResult, countVars, accounts, others>>
    /\ UNCHANGED setupVars

OtherBodies ==
    {[name |-> "Bob", email |-> e, password |-> p] :
        e \in Emails \ {""}, p \in {"abcde", "secret"}}

ProviderValues ==
    {[isNull |-> TRUE, ids |-> {}]}
    \cup {[isNull |-> FALSE, ids |-> s] : s \in SUBSET ProviderIds}

Next ==
    \/ \E v \in ProviderValues : ProvidersResolve(v)
    \/ ProvidersFail
    \/ \E v \in Names : SetName(v)
    \/ \E v \in Emails : SetEmail(v)
    \/ \E v \in Passwords : SetPassword(v)
    \/ \E v \in Passwords : SetConfirmPassword(v)
    \/ HandleSubmit
    \/ FetchResolves
    \/ \E lost \in BOOLEAN : FetchRejects(lost)
    \/ JsonResolves
    \/ \E result \in {"ok", "rejected", "throws"} : SignInReturns(result)
    \/ \E r \in net : ServerCheck(r)
    \/ \E r \in net : ServerInsert(r)
    \/ \E r \in net, msg \in SrvInternalMessages : ServerInternalError(r, msg)
    \/ \E r \in net, body \in {"unparseable", "null", "object"} : GatewayError(r, body)

Spec == Init /\ [][Next]_vars

\* every promise handleSubmit awaits settles: fetch resolves or rejects,
\* res.json() settles, signIn settles
AwaitsSettle ==
    /\ WF_vars(FetchResolves)
    /\ WF_vars(\E lost \in BOOLEAN : FetchRejects(lost))
    /\ WF_vars(JsonResolves)
    /\ WF_vars(\E result \in {"ok", "rejected", "throws"} : SignInReturns(result))

SpecLive == Spec /\ AwaitsSettle

(***************************************************************************)
(* The endpoint under concurrent requests of API clients.                  *)
(***************************************************************************)
NextRace ==
    \/ \E b \in OtherBodies : OtherRegister(b)
    \/ \E r \in net : ServerCheck(r)
    \/ \E r \in net : ServerInsert(r)
    \/ \E r \in net, msg \in SrvInternalMessages : ServerInternalError(r, msg)

SpecRace == Init /\ [][NextRace]_vars

(***************************************************************************)
(* The setup script (src/unnamed/part_002).  One action per command or     *)
(* prompt; the success of a command and the key typed at a prompt are the  *)
(* inputs.                                                                 *)
(***************************************************************************)
\* keys typed at a read -n 1 prompt
Keys == {"1", "2", "3", "4", "y", "Y", "n", ""}

\* a copy made without the test for an existing file
EnvMissingNotTested(f) == TRUE

\* [ ! -f ".env" ]
EnvMissing(f) == f = "absent"

\* $REPLY =~ ^[123]$
SeedAsked(r) == r \in {"1", "2", "3"}

\* $REPLY =~ ^[Yy]$
SeedWanted(r) == r \in {"y", "Y"}

\* the branch of case $REPLY taken
ChoiceBranch(r) ==
    IF r = "1" THEN "docker"
    ELSE IF r = "2" THEN "dbpush"
    ELSE IF r = "3" THEN "dbmigrate"
    ELSE "seedask"

\* where the script goes after the step at position p has succeeded
AfterSuccess(p) ==
    IF p = "node" THEN "npm"
    ELSE IF p = "npm" THEN "install"
    ELSE IF p = "install" THEN "env"
    ELSE IF p = "env" THEN "generate"
    ELSE IF p = "generate" THEN "choose"
    ELSE IF p = "docker" THEN "dbup"
    ELSE IF p = "dbup" THEN "dbpushUp"
    ELSE IF p \in {"dbpushUp", "dbpush", "dbmigrate"} THEN "seedask"
    ELSE "completed"

\* AfterFailure with the exit 1 of the install step left out
AfterFailureInstallGoesOn(p) ==
    IF p \in {"node", "npm", "env", "generate", "docker"} THEN "exit1"
    ELSE IF p = "install" THEN "env"
    ELSE IF p \in {"dbup", "dbpushUp", "dbpush", "dbmigrate"} THEN "seedask"
    ELSE "completed"

\* where the script goes after the step at position p has failed: exit 1
\* where the script says so, the next step otherwise
AfterFailure(p) ==
    IF p \in {"node", "npm", "install", "env", "generate", "docker"} THEN "exit1"
    ELSE IF p \in {"dbup", "dbpushUp", "dbpush", "dbmigrate"} THEN "seedask"
    ELSE "completed"

\* the exit status once the script is at position p
StatusAt(p) == IF p = "exit1" THEN "1" ELSE IF p = "completed" THEN "0" ELSE "running"

\* the script runs the command of its position, logs it and moves on
RunStep(p, command, ok) ==
    /\ sp = p
    /\ steps' = Append(steps, [step |-> command, ok |-> ok])
    /\ sp' = IF ok THEN AfterSuccess(p) ELSE AfterFailure(p)
    /\ exitStatus' = StatusAt(sp')

InitSetup ==
    /\ InitForm
    /\ sp = "node" /\ REPLY = "" /\ steps = <<>> /\ exitStatus = "running"
    /\ envFile \in {"absent", "user"} /\ envBefore = envFile

\* command_exists node
CheckNode(found) ==
    /\ RunStep("node", "command -v node", found)
    /\ UNCHANGED <<REPLY, envFile, envBefore, appVars>>

\* command_exists npm
CheckNpm(found) ==
    /\ RunStep("npm", "command -v npm", found)
    /\ UNCHANGED <<REPLY, envFile, envBefore, appVars>>

\* npm install
NpmInstall(ok) ==
    /\ RunStep("install", "npm install", ok)
    /\ UNCHANGED <<REPLY, envFile, envBefore, appVars>>

\* cp env.example .env, when .env is missing
EnvCreate(ok) ==
    /\ EnvMissing(envFile)
    /\ RunStep("env", "cp env.example .env", ok)
    /\ envFile' = IF ok THEN "example" ELSE envFile
    /\ UNCHANGED <<REPLY, envBefore, appVars>>

\* .env file already exists, skipping creation
EnvSkip ==
    /\ sp = "env" /\ ~EnvMissing(envFile)
    /\ sp' = AfterSuccess("env")
    /\ UNCHANGED <<REPLY, envFile, envBefore, steps, exitStatus, appVars>>

\* npm run db:generate
PrismaGenerate(ok) ==
    /\ RunStep("generate", "npm run db:generate", ok)
    /\ UNCHANGED <<REPLY, envFile, envBefore, appVars>>

\* the prompt for the database setup method, and the case on the key
ReadChoice(key) ==
    /\ sp = "choose"
    /\ REPLY' = key
    /\ steps' = Append(steps, [step |-> "database prompt", ok |-> TRUE])
    /\ sp' = ChoiceBranch(key)
    /\ UNCHANGED <<envFile, envBefore, exitStatus, appVars>>

\* option 1: command_exists docker
CheckDocker(found) ==
    /\ RunStep("docker", "command -v docker", found)
    /\ UNCHANGED <<REPLY, envFile, envBefore, appVars>>

\* option 1: npm run db:up
DbUp(ok) ==
    /\ RunStep("dbup", "npm run db:up", ok)
    /\ UNCHANGED <<REPLY, envFile, envBefore, appVars>>

\* option 1: npm run db:push after the container has started
DbPushAfterUp(ok) ==
    /\ RunStep("dbpushUp", "npm run db:push", ok)
    /\ UNCHANGED <<REPLY, envFile, envBefore, appVars>>

\* option 2: npm run db:push
DbPush(ok) ==
    /\ RunStep("dbpush", "npm run db:push", ok)
    /\ UNCHANGED <<REPLY, envFile, envBefore, appVars>>

\* option 3: npm run db:migrate
DbMigrate(ok) ==
    /\ RunStep("dbmigrate", "npm run db:migrate", ok)
    /\ UNCHANGED <<REPLY, envFile, envBefore, appVars>>

\* the prompt for seeding, asked when REPLY is 1, 2 or 3
AskSeed(key) ==
    /\ sp = "seedask" /\ SeedAsked(REPLY)
    /\ REPLY' = key
    /\ steps' = Append(steps, [step |-> "seed prompt", ok |-> TRUE])
    /\ sp' = IF SeedWanted(key) THEN "seed" ELSE "completed"
    /\ exitStatus' = StatusAt(sp')
    /\ UNCHANGED <<envFile, envBefore, appVars>>

\* no seeding prompt: on to 'Project setup completed!'
SkipSeed ==
    /\ sp = "seedask" /\ ~SeedAsked(REPLY)
    /\ sp' = "completed"
    /\ exitStatus' = StatusAt(sp')
    /\ UNCHANGED <<REPLY, envFile, envBefore, steps, appVars>>

\* npm run db:seed
DbSeed(ok) ==
    /\ RunStep("seed", "npm run db:seed", ok)
    /\ UNCHANGED <<REPLY, envFile, envBefore, appVars>>

NextSetup ==
    \/ \E found \in BOOLEAN : CheckNode(found)
    \/ \E found \in BOOLEAN : CheckNpm(found)
    \/ \E ok \in BOOLEAN : NpmInstall(ok)
    \/ \E ok \in BOOLEAN : EnvCreate(ok)
    \/ EnvSkip
    \/ \E ok \in BOOLEAN : PrismaGenerate(ok)
    \/ \E key \in Keys : ReadChoice(key)
    \/ \E found \in BOOLEAN : CheckDocker(found)
    \/ \E ok \in BOOLEAN : DbUp(ok)
    \/ \E ok \in BOOLEAN : DbPushAfterUp(ok)
    \/ \E ok \in BOOLEAN : DbPush(ok)
    \/ \E ok \in BOOLEAN : DbMigrate(ok)
    \/ \E key \in Keys : AskSeed(key)
    \/ SkipSeed
    \/ \E ok \in BOOLEAN : DbSeed(ok)

SpecSetup == InitSetup /\ [][NextSetup]_vars

(***************************************************************************)
(* Properties.                                                             *)
(***************************************************************************)
\* a step that is an invocation of handleSubmit
IsSubmit == submits' # submits

\* some client-side check fails on the fields as they are
InvalidFields ==
    \/ name = "" \/ email = "" \/ password = "" \/ confirmPassword = ""
    \/ password # confirmPassword
    \/ Len(password) < 6

\* C1: a submission that fails a client-side check (a field empty, the
\* passwords differ, the password shorter than 6) issues no registration
\* request, calls no signIn, redirects nowhere and writes no Account, however
\* often it is repeated.
C1_InvalidSubmitWritesNothing ==
    [][(IsSubmit /\ InvalidFields) =>
          /\ fetchCalls' = fetchCalls
          /\ signInCalls' = signInCalls
          /\ location' = location
          /\ session' = session
          /\ net' = net
          /\ accounts' = accounts
          /\ pc' = "idle"]_vars

\* the same short-password payload was submitted twice and nothing was sent
C1_Witness ==
    /\ submits >= 2 /\ fetchCalls = 0 /\ net = {} /\ accounts = {}
    /\ password = "abcde" /\ confirmPassword = "abcde"
    /\ error = "Password must be at least 6 characters long"

\* the message of the first failing check on the fields as they are, "" when
\* no check fails
FirstFailure ==
    IF name = "" \/ email = "" \/ password = "" \/ confirmPassword = ""
    THEN "All fields are required"
    ELSE IF password # confirmPassword THEN "Passwords do not match"
    ELSE IF Len(password) < 6 THEN "Password must be at least 6 characters long"
    ELSE ""

\* C2: handleSubmit checks in the order (1) all fields present, (2) passwords
\* equal, (3) password of 6 characters or more, and stops at the first failing
\* check: the error shown is that check's message, and the registration
\* request is sent exactly when no check fails.
C2_FirstFailingCheckDecides ==
    [][IsSubmit =>
          /\ error' = FirstFailure
          /\ (FirstFailure = "") <=> (fetchCalls' = fetchCalls + 1)
          /\ (FirstFailure # "") <=> (fetchCalls' = fetchCalls)]_vars

\* a password both different from its confirmation and too short was
\* submitted: the mismatch is what is reported
C2_Witness ==
    /\ submits >= 1 /\ pc = "idle"
    /\ name # "" /\ email # ""
    /\ password = "abcde" /\ confirmPassword = "secret"
    /\ error = "Passwords do not match"

\* the view offers a manual sign-in
ManualSignInPrompted ==
    \/ location = "/auth/signin"
    \/ \E x \in View : x.el = "signinLink" \/ x.el = "signinPrompt"

\* C3: when the registration request succeeded and the credential sign-in
\* that follows fails, the UI reports the user as registered and prompts a
\* manual sign-in.
C3_SignInFailurePromptsManualSignIn ==
    (success /\ signInResult \in {"rejected", "throws"}) =>
        /\ \E x \in View : x.el = "successText"
        /\ ManualSignInPrompted

\* C4: once the registration request has succeeded, exactly one Account is
\* persisted for the submitted email, also after the sign-in has failed: no
\* step of the sequence removes it.
C4_AccountSurvivesSignInFailure ==
    success => Cardinality(AccountsFor(accounts, req.email)) = 1

\* the sign-in failed after a successful registration
C4_Witness ==
    /\ success /\ pc = "done" /\ signInResult \in {"rejected", "throws"}
    /\ Cardinality(AccountsFor(accounts, req.email)) = 1

\* the finished requests for email e that were decided on their merits
\* (accepted by the validation, not cut short by an internal failure)
Decided(e) ==
    {d \in done : Lower(d.email) = Lower(e) /\ d.how \in {"ok", "conflict", "constraint"}}

\* C5: of the valid registrations posted for one email, in any interleaving
\* of their check and insert steps, exactly one succeeds and every other one
\* fails with ConflictError, and the store never holds two Accounts for one
\* email.
C5_OneAccountPerEmail ==
    /\ \A e \in Emails : Cardinality(AccountsFor(accounts, e)) <= 1
    /\ \A e \in Emails :
          Decided(e) # {} => Cardinality({d \in Decided(e) : d.how = "ok"}) = 1

\* two registrations for one email both passed the pre-check; the unique
\* constraint stopped the second insert
C5_Witness ==
    \E d1, d2 \in done :
        /\ d1.id # d2.id /\ Lower(d1.email) = Lower(d2.email)
        /\ d1.how = "ok" /\ d2.how = "constraint"
        /\ Cardinality(AccountsFor(accounts, d1.email)) = 1

\* C6: whatever provider discovery does (pending, resolved to null, to an
\* empty set or to the credentials provider alone, or failed), the
\* registration form is rendered as long as no registration has succeeded,
\* and the arrival of the discovery's outcome changes nothing a submission
\* reads or writes.
C6_DiscoveryNeverBlocksRegistration ==
    /\ [](~success => [el |-> "form", arg |-> ""] \in View)
    /\ [](~success /\ ~isLoading /\ submits < MaxSubmits => ENABLED HandleSubmit)
    /\ [][(providers' # providers \/ discovery' # discovery) =>
             UNCHANGED <<formVars, uiVars, runVars, countVars, serverVars>>]_vars

\* a registration ran to the redirect although the discovery had failed
C6_Witness ==
    /\ discovery = "failed" /\ providers.isNull
    /\ pc = "done" /\ signInResult = "ok" /\ location = "/"

\* a step in which the form handles the parsed or unparseable body
IsJsonStep == pc = "awaitJson" /\ pc' # pc

\* C7 as stated: on a non-success status the form shows the response's
\* error message, or 'Registration failed' when the response carries none;
\* success stays false, signIn is not called, no redirect happens.
C7_Original ==
    [][IsJsonStep =>
          \A r \in res :
              (r.status < 200 \/ r.status > 299) =>
                  /\ error' = (IF r.error # "" THEN r.error ELSE "Registration failed")
                  /\ ~success'
                  /\ signInCalls' = signInCalls
                  /\ location' = location]_vars

\* C7: on a non-success status whose body parses to a JSON object the form
\* shows the body's error message, or 'Registration failed' when it carries
\* none; when the body does not parse, or is JSON null, the form shows 'An
\* error occurred during registration'.  In each case success stays false,
\* signIn is not called and no redirect happens.
C7_NonOkResponseShowsError ==
    [][IsJsonStep =>
          \A r \in res :
              (r.status < 200 \/ r.status > 299) =>
                  /\ error' = (IF r.body # "object"
                               THEN "An error occurred during registration"
                               ELSE IF r.error # "" THEN r.error
                               ELSE "Registration failed")
                  /\ ~success'
                  /\ signInCalls' = signInCalls
                  /\ location' = location]_vars

\* a duplicate email was answered with the conflict message and the form
\* shows it
C7_Witness ==
    /\ pc = "idle" /\ ~success /\ signInCalls = 0 /\ location = "/auth/register"
    /\ \E r \in res : r.status = 409 /\ r.error = error /\ error # ""

\* C8: signIn is called only after the registration request returned a
\* success status, the redirect to '/' happens only after that signIn call
\* has returned, and a run whose request and sign-in both succeed ends with
\* the success state shown, a session established and the client at '/'.
C8_SignInAfterOkRedirectAfterSignIn ==
    /\ signInCalls > 0 => \E r \in res : r.status >= 200 /\ r.status <= 299
    /\ signInCalls > 0 => fetchCalls > 0 /\ pc \in {"awaitSignIn", "done"}
    /\ pc = "awaitSignIn" => location # "/" /\ ~session
    /\ location = "/" => pc = "done" /\ signInResult \in {"ok", "rejected"}
    /\ session => signInResult = "ok"
    /\ (pc = "done" /\ signInResult = "ok") =>
          /\ success /\ session /\ location = "/"
          /\ \E x \in View : x.el = "successText"

\* the happy path has run to its end
C8_Witness ==
    /\ pc = "done" /\ signInResult = "ok" /\ success /\ session /\ location = "/"
    /\ signInCalls = 1

\* the last run of handleSubmit ended in a failure
LastRunFailed ==
    \/ pc = "idle" /\ submits > 0
    \/ pc = "done" /\ signInResult = "throws"

\* C9: every failed submission (validation failure, non-success response,
\* exception from the request or from parsing its body, exception from the
\* sign-in call) ends with an error message that the rendered view shows.
C9_EveryFailureShowsItsError ==
    LastRunFailed =>
        /\ error # ""
        /\ [el |-> "errorText", arg |-> error] \in View

\* C10: when the store or the auth layer is unavailable (the endpoint
\* answers InternalError, status 500), the message shown is the generic 'An
\* error occurred during registration', never the message the failing
\* response supplies.
C10_InternalErrorShowsGenericMessage ==
    [][IsJsonStep =>
          \A r \in res :
              r.status = 500 =>
                  /\ error' = "An error occurred during registration"
                  /\ error' # r.error]_vars

\* the providers discovery returned whose id is not 'credentials'
DiscoveredOauth ==
    IF discovery = "resolved" /\ ~providers.isNull
    THEN providers.ids \ {"credentials"}
    ELSE {}

\* the ids of the OAuth buttons in the view
OauthButtons == {x.arg : x \in {y \in View : y.el = "oauthButton"}}

\* C11 as stated: the OAuth section is rendered if and only if discovery
\* returned a provider other than credentials, with one button per such
\* provider and none for credentials.
C11_Original ==
    /\ ([el |-> "oauthSection", arg |-> ""] \in View) <=> (DiscoveredOauth # {})
    /\ OauthButtons = DiscoveredOauth

\* C11: while the registration form is shown (no registration has
\* succeeded), the OAuth section is rendered if and only if discovery
\* returned a provider other than credentials, with one button per such
\* provider and none for credentials; the success view holds no OAuth
\* section.
C11_OauthSectionWhileFormShown ==
    /\ ~success =>
          /\ ([el |-> "oauthSection", arg |-> ""] \in View) <=> (DiscoveredOauth # {})
          /\ OauthButtons = DiscoveredOauth
          /\ "credentials" \notin OauthButtons
    /\ success =>
          /\ [el |-> "oauthSection", arg |-> ""] \notin View
          /\ OauthButtons = {}

\* discovery returned credentials and github: the form shows the section
\* with the github button alone
C11_Witness ==
    /\ ~success /\ providers.ids = {"credentials", "github"}
    /\ [el |-> "oauthSection", arg |-> ""] \in View
    /\ OauthButtons = {"github"}

\* C13: after a successful registration response, when the signIn call
\* returns, with success or with a reported failure, the client is
\* redirected to '/', and neither the redirect nor what the view shows
\* depends on the result.
C13_RedirectWhateverSignInReturns ==
    [][(pc = "awaitSignIn" /\ signInResult' \in {"ok", "rejected"}) =>
          /\ location' = "/"
          /\ success' /\ error' = error
          /\ View' = View]_vars

\* signIn reported a failure and the client is at '/' all the same
C13_Witness ==
    /\ pc = "done" /\ signInResult = "rejected" /\ ~session
    /\ location = "/" /\ success

\* C15: every invocation of handleSubmit finishes with isLoading = false,
\* on each path (validation failure, non-success response, exception in the
\* request, in parsing the response or in signIn, success): no finished run
\* leaves the form loading, and a form that is loading stops loading.
C15_SubmitEndsNotLoading ==
    /\ [](pc \in {"idle", "done"} => ~isLoading)
    /\ [](isLoading => pc \in {"awaitFetch", "awaitJson", "awaitSignIn"})
    /\ isLoading ~> ~isLoading

\* a run that ended in the catch block after signIn threw has stopped loading
C15_Witness ==
    /\ pc = "done" /\ signInResult = "throws" /\ submits >= 1 /\ ~isLoading

\* the script has run the command, with success
RanOk(command) == \E i \in 1..Len(steps) : steps[i].step = command /\ steps[i].ok

\* the script has run the command
Ran(command) == \E i \in 1..Len(steps) : steps[i].step = command

\* C12: a run of the setup script that reaches 'Project setup completed'
\* has checked the Docker prerequisite, created or kept .env, started
\* PostgreSQL with Docker Compose, installed the npm dependencies, generated
\* the Prisma client, set up the database schema and seeded the database.
C12_CompletedRunDidEveryStep ==
    sp = "completed" =>
        /\ Ran("command -v docker")
        /\ envFile # "absent"
        /\ RanOk("npm run db:up")
        /\ RanOk("npm install")
        /\ RanOk("npm run db:generate")
        /\ RanOk("npm run db:push") \/ RanOk("npm run db:migrate")
        /\ RanOk("npm run db:seed")

\* C14: the seeding prompt is reached only when the database setup was
\* successful: never after the chosen database setup step (container start,
\* schema push or migration) has failed.
C14_SeedPromptOnlyAfterDatabaseSuccess ==
    \A i \in 1..Len(steps) :
        steps[i].step = "seed prompt" =>
            \A j \in 1..(i - 1) :
                steps[j].step \in {"npm run db:up", "npm run db:push", "npm run db:migrate"}
                    => steps[j].ok

\* the steps whose failure ends the script
MandatorySteps ==
    {"command -v node", "command -v npm", "npm install", "cp env.example .env",
     "npm run db:generate", "command -v docker"}

\* place of a step in the order prerequisites, install, .env, Prisma
\* generate, database setup, seed
StepRank(command) ==
    IF command \in {"command -v node", "command -v npm"} THEN 1
    ELSE IF command = "npm install" THEN 2
    ELSE IF command = "cp env.example .env" THEN 3
    ELSE IF command = "npm run db:generate" THEN 4
    ELSE IF command \in {"seed prompt", "npm run db:seed"} THEN 6
    ELSE 5

\* C16: when a mandatory step fails (Node.js or npm missing, npm install,
\* the copy of env.example, the Prisma generation, Docker missing after
\* option 1) the script stops with exit status 1 and runs no later step; the
\* steps run in the order prerequisites, install, .env, Prisma generate,
\* database setup, seed, so the database prompt is reached only when every
\* earlier step succeeded.
C16_MandatoryFailureStopsTheScript ==
    /\ \A i \in 1..Len(steps) :
          (steps[i].step \in MandatorySteps /\ ~steps[i].ok) =>
              /\ i = Len(steps)
              /\ sp = "exit1" /\ exitStatus = "1"
    /\ exitStatus = "1" =>
          /\ steps # <<>>
          /\ steps[Len(steps)].step \in MandatorySteps /\ ~steps[Len(steps)].ok
    /\ \A i, j \in 1..Len(steps) :
          i < j => StepRank(steps[i].step) <= StepRank(steps[j].step)
    /\ Ran("database prompt") =>
          /\ RanOk("command -v node") /\ RanOk("command -v npm")
          /\ RanOk("npm install") /\ RanOk("npm run db:generate")
          /\ envFile # "absent"
          /\ \A i \in 1..Len(steps) :
                StepRank(steps[i].step) <= 4 => steps[i].ok

\* Docker was missing after option 1: the script stopped there with status 1
C16_Witness ==
    /\ sp = "exit1" /\ exitStatus = "1" /\ REPLY = "1"
    /\ steps # <<>>
    /\ steps[Len(steps)] = [step |-> "command -v docker", ok |-> FALSE]

\* C17: the setup script never overwrites an existing .env: a .env present
\* before the run is left as it was, and env.example is copied to .env only
\* when .env was absent.
C17_ExistingEnvFileIsKept ==
    /\ envBefore = "user" => envFile = "user" /\ ~Ran("cp env.example .env")
    /\ envFile = "example" => envBefore = "absent" /\ RanOk("cp env.example .env")
    /\ Ran("cp env.example .env") => envBefore = "absent"

\* a run over an existing .env went past the environment step and completed
C17_Witness ==
    /\ envBefore = "user" /\ envFile = "user" /\ sp = "completed"

====
